---- MODULE Spec2Model ----
(***************************************************************************)
(* Timer wrapper of rust/kernel/timer.rs over the host's timer_list:       *)
(* TimerBuilder's three placement strategies, Timer::initialize,           *)
(* Timer::modify, the dispatch trampoline Timer::wrapper and Drop for      *)
(* Timer, run by one owner thread against the host's timer wheel, which    *)
(* advances the tick counter and dispatches expired timers concurrently.   *)
(* Then the consumer of drivers/input/ps2_counter.rs: the interrupt        *)
(* handler, the flush callback and the construction and destruction of     *)
(* Ps2Counter; and the flag setters of TimerBuilder.                       *)
(***************************************************************************)
EXTENDS Integers, FiniteSets

\* ---------------------------------------------------------------- bounds
MaxTimers == 3      \* Timers ever built in one behaviour
MaxDelta == 1       \* deadlines are jiffies + 0..MaxDelta
TickMod == 4        \* the tick counter wraps at TickMod (2^64 in the source)
JiffiesMod == 8     \* the consumer's u64 tick values wrap at JiffiesMod
DELAY == 3          \* the flush delay in ticks (10 * HZ in the source)
MaxEvents == 10     \* interrupts handled in one behaviour
MaxCalls == 4       \* flag setter calls on one builder

Timers == 1..MaxTimers
Ticks == 0..(TickMod - 1)
Deltas == 0..MaxDelta
NoTimer == 0
NoTick == TickMod

\* The two shapes of TimerCallback::invoke in the sources: Callback of
\* ps2_counter.rs calls timer.modify on every path, MyHandler never does.
Kinds == {"rearm", "oneshot"}
\* boxed / in_option / in_uninit
Places == {"heap", "option", "raw"}

VARIABLES
    jiffies,      \* the host's tick counter
    wheel,        \* the host's pending registrations: pairs <<timer, expires>>
    cbpc,         \* per Timer: position of the host's dispatch in wrapper
    st,           \* per Timer: its lifecycle position
    kind,         \* per Timer: which callback it owns
    place,        \* per Timer: the placement strategy that builds it
    loc,          \* per Timer: where the Timer payload is now
    regAddr,      \* per Timer: the address handed to init_timer_key
    initCount,    \* per Timer: init_timer_key calls made
    cancelCount,  \* per Timer: del_timer_sync calls returned
    delRet,       \* per Timer: what del_timer_sync returned to Drop::drop
    armedFor,     \* per Timer: deadline of the last modify still pending
    cur,          \* the Timer the owner thread is operating on (0: none)
    pend,         \* in_option: the new Timer waiting for the old one's drop
    arg,          \* modify's expires argument
    ret,          \* what the owner's last modify returned
    optSlot,      \* the Timer held by the pinned Option (0: None)
    rawSlot,      \* the Timer last written to the pinned MaybeUninit
    ps,           \* the consumer: COUNTER_INSTANCE, Ps2Counter and its Timer
    tb            \* a TimerBuilder and the registration made from it

vars == <<jiffies, wheel, cbpc, st, kind, place, loc, regAddr, initCount,
          cancelCount, delRet, armedFor, cur, pend, arg, ret, optSlot,
          rawSlot, ps, tb>>

\* The Timers of the owner thread, the consumer, the builder.
timerVars == <<jiffies, wheel, cbpc, st, kind, place, loc, regAddr, initCount,
               cancelCount, delRet, armedFor, cur, pend, arg, ret, optSlot,
               rawSlot>>

hostVars == <<jiffies, wheel, cbpc, armedFor>>
placeVars == <<kind, place, loc, regAddr, initCount, optSlot, rawSlot>>
dropVars == <<cancelCount, delRet>>

\* ------------------------------------------------------- host primitive
\* Wrap-safe tick comparison (the host's time_after_eq).
time_after_eq(a, b) == ((a - b) % TickMod) < ((TickMod + 1) \div 2)

EntriesOf(w, t) == {e \in w : e[1] = t}
timer_pending(w, t) == EntriesOf(w, t) # {}

\* detach_if_pending
detach_timer(w, t) == w \ EntriesOf(w, t)

\* mod_timer: one registration per timer_list, moved to the new deadline.
mod_timer(w, t, expires) == detach_timer(w, t) \cup {<<t, expires>>}

\* mod_timer's return value: 1 when the timer was pending, else 0.
mod_timer_ret(w, t) == IF timer_pending(w, t) THEN 1 ELSE 0

\* del_timer_sync returns only when the timer's callback is not running.
del_timer_sync_ready(t) == cbpc[t] = "none"

\* A deadline that expired at an earlier tick than the current one: the host
\* dispatches a deadline at the tick it expires or during the next.
Overdue(e) == time_after_eq(jiffies, e) /\ jiffies # e

Running(t) == cbpc[t] # "none"
Armed(t) == timer_pending(wheel, t)

\* ----------------------------------------------------------------- Init
\* No Timer of the owner thread is built yet.
TimersInit ==
    /\ jiffies = 0
    /\ wheel = {}
    /\ cbpc = [t \in Timers |-> "none"]
    /\ st = [t \in Timers |-> "unused"]
    /\ kind = [t \in Timers |-> "oneshot"]
    /\ place = [t \in Timers |-> "heap"]
    /\ loc = [t \in Timers |-> "none"]
    /\ regAddr = [t \in Timers |-> "none"]
    /\ initCount = [t \in Timers |-> 0]
    /\ cancelCount = [t \in Timers |-> 0]
    /\ delRet = [t \in Timers |-> 0]
    /\ armedFor = [t \in Timers |-> NoTick]
    /\ cur = NoTimer
    /\ pend = NoTimer
    /\ arg = 0
    /\ ret = "none"
    /\ optSlot = NoTimer
    /\ rawSlot = NoTimer

\* The consumer's tick values, and the markers of no pending deadline and of
\* no report printed.
Jiffies == 0..(JiffiesMod - 1)
NoDeadline == JiffiesMod
NoReport == MaxEvents + 1

\* The consumer before Ps2Counter::init, at tick j. COUNTER_INSTANCE is a
\* static built by CounterData::new: counter 0, last_printed 0.
CounterData_new(j) ==
    [mod |-> "unloaded",        \* position of Ps2Counter's construction / drop
     irq |-> FALSE,             \* the handler is installed on line 1
     initRet |-> "none",        \* what Ps2Counter::init returned
     errno |-> 0,               \* the errno carried by an Err
     timer |-> "none",          \* the boxed Timer: none / live / dropped
     initCount |-> 0,           \* init_timer_key calls made for it
     expires |-> NoDeadline,    \* its pending deadline in the host
     cb |-> "none",             \* position of the dispatch in Callback::invoke
     jiffies_64 |-> j,          \* the host's tick counter
     counter |-> 0,             \* COUNTER_INSTANCE.counter
     last_printed |-> 0,        \* COUNTER_INSTANCE.last_printed
     now |-> 0, last |-> 0, diff |-> 0, swapped |-> 0,  \* locals of invoke
     printed |-> NoReport,      \* the report printed by the running invoke
     handled |-> 0,             \* interrupts that returned IRQ_HANDLED
     flushed |-> 0,             \* sum of the values swapped out of counter
     irqret |-> "none"]         \* what the last trampoline call returned

\* No TimerBuilder exists.
NoBuilder ==
    [stage |-> "none", name |-> "none", callback |-> "none", flags |-> 0,
     called |-> {}, ncalls |-> 0,
     regFlags |-> 0, regName |-> "none", regCallback |-> "none"]

Init ==
    /\ TimersInit
    /\ ps = CounterData_new(0)
    /\ tb = NoBuilder

\* ------------------------------------------------------------ placement
\* TimerBuilder::new followed by the call of a placement strategy, up to the
\* return of Timer::new_uninitialized: the payload is a local of the caller.
new_uninitialized(t, p, k) ==
    /\ cur = NoTimer
    /\ st[t] = "unused"
    /\ \A u \in Timers : u < t => st[u] # "unused"
    \* in_uninit's safety contract: the previous occupant was dropped.
    /\ p = "raw" => rawSlot = NoTimer
    \* The owner holds one Timer at a time: the next is built once the last
    \* is dropped or its storage released, or into the Option that holds it.
    /\ \A u \in Timers :
          \/ st[u] \in {"unused", "dropped", "leaked"}
          \/ p = "option" /\ u = optSlot
    /\ st' = [st EXCEPT ![t] = "uninit"]
    /\ kind' = [kind EXCEPT ![t] = k]
    /\ place' = [place EXCEPT ![t] = p]
    /\ loc' = [loc EXCEPT ![t] = "stack"]
    /\ cur' = t
    /\ ret' = "none"
    /\ UNCHANGED <<hostVars, regAddr, initCount, dropVars, pend, arg,
                   optSlot, rawSlot>>
    /\ UNCHANGED <<ps, tb>>

\* boxed: Box::pin(uninit)
boxed(t) ==
    /\ cur = t /\ st[t] = "uninit" /\ place[t] = "heap"
    /\ loc' = [loc EXCEPT ![t] = "heap"]
    /\ st' = [st EXCEPT ![t] = "placed"]
    /\ UNCHANGED <<hostVars, kind, place, regAddr, initCount, dropVars,
                   cur, pend, arg, ret, optSlot, rawSlot>>
    /\ UNCHANGED <<ps, tb>>

\* in_uninit: place.set(MaybeUninit::new(uninit)) overwrites the storage;
\* MaybeUninit runs no destructor of what it held.
in_uninit(t) ==
    /\ cur = t /\ st[t] = "uninit" /\ place[t] = "raw"
    /\ loc' = [loc EXCEPT ![t] = "raw"]
    /\ rawSlot' = t
    /\ st' = [st EXCEPT ![t] = "placed"]
    /\ UNCHANGED <<hostVars, kind, place, regAddr, initCount, dropVars,
                   cur, pend, arg, ret, optSlot>>
    /\ UNCHANGED <<ps, tb>>

\* Mutant of in_option_drop_old: the new value is written over the old one
\* without dropping it (ptr::write instead of an assignment).
in_option_overwrite(t) ==
    /\ cur = t /\ st[t] = "uninit" /\ place[t] = "option"
    /\ optSlot # NoTimer
    /\ loc' = [loc EXCEPT ![t] = "option"]
    /\ optSlot' = t
    /\ st' = [st EXCEPT ![t] = "placed"]
    /\ UNCHANGED <<hostVars, kind, place, regAddr, initCount, dropVars,
                   cur, pend, arg, ret, rawSlot>>
    /\ UNCHANGED <<ps, tb>>

\* in_option: place.set(Some(uninit)) on an occupied Option first drops the
\* old value in place: the owner thread enters Drop for the old Timer.
in_option_drop_old(t) ==
    /\ cur = t /\ st[t] = "uninit" /\ place[t] = "option"
    /\ optSlot # NoTimer
    /\ st' = [st EXCEPT ![optSlot] = "del_timer_sync"]
    /\ cur' = optSlot
    /\ pend' = t
    /\ UNCHANGED <<hostVars, placeVars, dropVars, arg, ret>>
    /\ UNCHANGED <<ps, tb>>

\* in_option: place.set(Some(uninit)) writes the new value into the Option.
in_option(t) ==
    /\ cur = t /\ st[t] = "uninit" /\ place[t] = "option"
    /\ optSlot = NoTimer
    /\ loc' = [loc EXCEPT ![t] = "option"]
    /\ optSlot' = t
    /\ st' = [st EXCEPT ![t] = "placed"]
    /\ UNCHANGED <<hostVars, kind, place, regAddr, initCount, dropVars,
                   cur, pend, arg, ret, rawSlot>>
    /\ UNCHANGED <<ps, tb>>

\* Mutant of initialize: the handle is returned without init_timer_key.
initialize_skipped(t) ==
    /\ cur = t /\ st[t] = "placed"
    /\ st' = [st EXCEPT ![t] = "live"]
    /\ cur' = NoTimer
    /\ UNCHANGED <<hostVars, placeVars, dropVars, pend, arg, ret>>
    /\ UNCHANGED <<ps, tb>>

\* Timer::initialize: init_timer_key on the pinned Timer, then the handle
\* is returned to the caller of the placement strategy.
initialize(t) ==
    /\ cur = t /\ st[t] = "placed"
    /\ initCount' = [initCount EXCEPT ![t] = @ + 1]
    /\ regAddr' = [regAddr EXCEPT ![t] = loc[t]]
    /\ st' = [st EXCEPT ![t] = "live"]
    /\ cur' = NoTimer
    /\ UNCHANGED <<hostVars, kind, place, loc, dropVars, pend, arg
                   , ret, optSlot, rawSlot>>
    /\ UNCHANGED <<ps, tb>>

\* --------------------------------------------------------------- modify
\* Timer::modify, entry: self.get_unchecked_mut() gives the owner an
\* exclusive view; expires is an absolute tick the caller computed.
modify_enter(t, d) ==
    /\ cur = NoTimer /\ st[t] = "live"
    /\ st' = [st EXCEPT ![t] = "modify"]
    /\ cur' = t
    /\ arg' = (jiffies + d) % TickMod
    /\ ret' = "none"
    /\ UNCHANGED <<hostVars, placeVars, dropVars, pend>>
    /\ UNCHANGED <<ps, tb>>

\* Mutant of modify: the result is tested the wrong way round (res == 0).
modify_inverted(t) ==
    /\ cur = t /\ st[t] = "modify"
    /\ wheel' = mod_timer(wheel, t, arg)
    /\ armedFor' = [armedFor EXCEPT ![t] = arg]
    /\ ret' = IF mod_timer_ret(wheel, t) = 0 THEN "true" ELSE "false"
    /\ st' = [st EXCEPT ![t] = "live"]
    /\ cur' = NoTimer
    /\ arg' = 0
    /\ UNCHANGED <<jiffies, cbpc, placeVars, dropVars, pend>>
    /\ UNCHANGED <<ps, tb>>

\* Mutant of modify: the Timer is moved out of its pinned place through the
\* &mut that get_unchecked_mut returned.
modify_moves(t) ==
    /\ cur = t /\ st[t] = "modify"
    /\ wheel' = mod_timer(wheel, t, arg)
    /\ armedFor' = [armedFor EXCEPT ![t] = arg]
    /\ ret' = IF mod_timer_ret(wheel, t) # 0 THEN "true" ELSE "false"
    /\ st' = [st EXCEPT ![t] = "live"]
    /\ loc' = [loc EXCEPT ![t] = "stack"]
    /\ cur' = NoTimer
    /\ arg' = 0
    /\ UNCHANGED <<jiffies, cbpc, kind, place, regAddr, initCount, optSlot,
                   rawSlot, dropVars, pend>>
    /\ UNCHANGED <<ps, tb>>

\* Mutant of modify: a second registration is added (add_timer) instead of
\* the pending one being moved.
modify_adds(t) ==
    /\ cur = t /\ st[t] = "modify"
    /\ wheel' = wheel \cup {<<t, arg>>}
    /\ armedFor' = [armedFor EXCEPT ![t] = arg]
    /\ ret' = IF mod_timer_ret(wheel, t) # 0 THEN "true" ELSE "false"
    /\ st' = [st EXCEPT ![t] = "live"]
    /\ cur' = NoTimer
    /\ arg' = 0
    /\ UNCHANGED <<jiffies, cbpc, placeVars, dropVars, pend>>
    /\ UNCHANGED <<ps, tb>>

\* Timer::modify: mod_timer(this.list, expires); returns res != 0.
modify(t) ==
    /\ cur = t /\ st[t] = "modify"
    /\ wheel' = mod_timer(wheel, t, arg)
    /\ armedFor' = [armedFor EXCEPT ![t] = arg]
    /\ ret' = IF mod_timer_ret(wheel, t) # 0 THEN "true" ELSE "false"
    /\ st' = [st EXCEPT ![t] = "live"]
    /\ cur' = NoTimer
    /\ arg' = 0
    /\ UNCHANGED <<jiffies, cbpc, placeVars, dropVars, pend>>
    /\ UNCHANGED <<ps, tb>>

\* ----------------------------------------------------------------- Drop
\* The owner gives the Timer up: the boxed handle or the owner of the
\* Option goes out of scope, or the holder of a raw slot drops it in place.
\* Drop::drop is entered and calls del_timer_sync.
drop(t) ==
    /\ cur = NoTimer /\ st[t] = "live"
    /\ st' = [st EXCEPT ![t] = "del_timer_sync"]
    /\ cur' = t
    /\ ret' = "none"
    /\ UNCHANGED <<hostVars, placeVars, dropVars, pend, arg>>
    /\ UNCHANGED <<ps, tb>>

\* Mutant of del_timer_sync: Drop::drop calls del_timer, which detaches the
\* registration and returns without waiting for a running callback.
del_timer_no_sync(t) ==
    /\ cur = t /\ st[t] = "del_timer_sync"
    /\ wheel' = detach_timer(wheel, t)
    /\ armedFor' = [armedFor EXCEPT ![t] = NoTick]
    /\ cancelCount' = [cancelCount EXCEPT ![t] = @ + 1]
    /\ delRet' = [delRet EXCEPT ![t] = mod_timer_ret(wheel, t)]
    /\ st' = [st EXCEPT ![t] = "drop_in_place"]
    /\ UNCHANGED <<jiffies, cbpc, placeVars, cur, pend, arg, ret>>
    /\ UNCHANGED <<ps, tb>>

\* Drop::drop: del_timer_sync(timer_list) returns.
del_timer_sync(t) ==
    /\ cur = t /\ st[t] = "del_timer_sync"
    /\ del_timer_sync_ready(t)
    /\ wheel' = detach_timer(wheel, t)
    /\ armedFor' = [armedFor EXCEPT ![t] = NoTick]
    /\ cancelCount' = [cancelCount EXCEPT ![t] = @ + 1]
    /\ delRet' = [delRet EXCEPT ![t] = mod_timer_ret(wheel, t)]
    /\ st' = [st EXCEPT ![t] = "drop_in_place"]
    /\ UNCHANGED <<jiffies, cbpc, placeVars, cur, pend, arg, ret>>
    /\ UNCHANGED <<ps, tb>>

\* Drop::drop: drop_in_place(timer_list); drop_in_place(key).
drop_in_place(t) ==
    /\ cur = t /\ st[t] = "drop_in_place"
    /\ st' = [st EXCEPT ![t] = "drop_glue"]
    /\ UNCHANGED <<hostVars, placeVars, dropVars, cur, pend, arg, ret>>
    /\ UNCHANGED <<ps, tb>>

\* After Drop::drop returns the fields (the callback) are dropped and the
\* storage is given back: the Box is freed, the slot may be written again.
drop_glue(t) ==
    /\ cur = t /\ st[t] = "drop_glue"
    /\ st' = [st EXCEPT ![t] = "dropped"]
    /\ optSlot' = IF optSlot = t THEN NoTimer ELSE optSlot
    /\ rawSlot' = IF rawSlot = t THEN NoTimer ELSE rawSlot
    /\ cur' = pend
    /\ pend' = NoTimer
    \* the Timer is gone: nothing of its payload is left to read
    /\ kind' = [kind EXCEPT ![t] = "oneshot"]
    /\ loc' = [loc EXCEPT ![t] = "none"]
    /\ regAddr' = [regAddr EXCEPT ![t] = "none"]
    /\ delRet' = [delRet EXCEPT ![t] = 0]
    /\ UNCHANGED <<hostVars, place, initCount, cancelCount, arg, ret>>
    /\ UNCHANGED <<ps, tb>>

\* The holder of the pinned MaybeUninit goes out of scope: MaybeUninit has
\* no drop glue, so the storage is reclaimed and Drop for Timer never runs.
raw_release(t) ==
    /\ cur = NoTimer /\ st[t] = "live" /\ place[t] = "raw"
    /\ st' = [st EXCEPT ![t] = "leaked"]
    /\ kind' = [kind EXCEPT ![t] = "oneshot"]
    /\ loc' = [loc EXCEPT ![t] = "none"]
    /\ ret' = "none"
    /\ UNCHANGED <<hostVars, place, regAddr, initCount, optSlot, rawSlot,
                   dropVars, cur, pend, arg>>
    /\ UNCHANGED <<ps, tb>>

\* ----------------------------------------------------------------- host
\* The host advances the tick counter, unless a deadline is overdue.
Tick ==
    /\ \A e \in wheel : ~Overdue(e[2])
    /\ cur # NoTimer /\ st[cur] = "modify" => ~Overdue(arg)
    /\ jiffies' = (jiffies + 1) % TickMod
    /\ UNCHANGED <<wheel, cbpc, armedFor, st, placeVars, dropVars, cur,
                   pend, arg, ret>>
    /\ UNCHANGED <<ps, tb>>

\* Mutant of wrapper: the registration stays pending while the callback is
\* called.
wrapper_keeps_pending(t) ==
    /\ cbpc[t] = "none"
    /\ \E e \in EntriesOf(wheel, t) : time_after_eq(jiffies, e[2])
    /\ cbpc' = [cbpc EXCEPT ![t] = "invoke"]
    /\ UNCHANGED <<jiffies, wheel, armedFor, st, placeVars, dropVars, cur,
                   pend, arg, ret>>
    /\ UNCHANGED <<ps, tb>>

\* The host detaches an expired registration and calls Timer::wrapper, which
\* recovers the Timer by container_of and makes a &mut Self of it.
wrapper(t) ==
    /\ cbpc[t] = "none"
    /\ \E e \in EntriesOf(wheel, t) :
          /\ time_after_eq(jiffies, e[2])
          /\ wheel' = wheel \ {e}
    /\ armedFor' = [armedFor EXCEPT ![t] = NoTick]
    /\ cbpc' = [cbpc EXCEPT ![t] = "invoke"]
    /\ UNCHANGED <<jiffies, st, placeVars, dropVars, cur, pend, arg, ret>>
    /\ UNCHANGED <<ps, tb>>

\* Mutant of invoke: the callback returns without calling timer.modify.
invoke_no_rearm(t, k, d) ==
    /\ cbpc[t] = "invoke"
    /\ st[t] # "leaked" => k = kind[t]
    /\ d = 0
    /\ cbpc' = [cbpc EXCEPT ![t] = "ret"]
    /\ UNCHANGED <<jiffies, wheel, armedFor, st, placeVars, dropVars, cur,
                   pend, arg, ret>>
    /\ UNCHANGED <<ps, tb>>

\* TimerCallback::invoke: a re-arming callback calls timer.modify(now + d).
\* On reclaimed storage the callback read is whatever the memory holds.
invoke(t, k, d) ==
    /\ cbpc[t] = "invoke"
    /\ st[t] # "leaked" => k = kind[t]
    /\ IF k = "rearm"
         THEN /\ wheel' = mod_timer(wheel, t, (jiffies + d) % TickMod)
              /\ armedFor' = [armedFor EXCEPT ![t] = (jiffies + d) % TickMod]
         ELSE /\ d = 0
              /\ UNCHANGED <<wheel, armedFor>>
    /\ cbpc' = [cbpc EXCEPT ![t] = "ret"]
    /\ UNCHANGED <<jiffies, st, placeVars, dropVars, cur, pend, arg, ret>>
    /\ UNCHANGED <<ps, tb>>

\* Timer::wrapper returns to the host, which clears its running timer.
wrapper_return(t) ==
    /\ cbpc[t] = "ret"
    /\ cbpc' = [cbpc EXCEPT ![t] = "none"]
    /\ UNCHANGED <<jiffies, wheel, armedFor, st, placeVars, dropVars, cur,
                   pend, arg, ret>>
    /\ UNCHANGED <<ps, tb>>

\* ----------------------------------------------------------------- Next
\* The owner thread builds Timers and gives them up.
OwnerBuildDrop ==
    \/ \E t \in Timers, p \in Places, k \in Kinds : new_uninitialized(t, p, k)
    \/ \E t \in Timers : boxed(t)
    \/ \E t \in Timers : in_uninit(t)
    \/ \E t \in Timers : in_option_drop_old(t)
    \/ \E t \in Timers : in_option(t)
    \/ \E t \in Timers : initialize(t)
    \/ \E t \in Timers : drop(t)
    \/ \E t \in Timers : del_timer_sync(t)
    \/ \E t \in Timers : drop_in_place(t)
    \/ \E t \in Timers : drop_glue(t)
    \/ \E t \in Timers : raw_release(t)

\* The host: the tick counter and the dispatch of expired timers.
Host ==
    \/ Tick
    \/ \E t \in Timers : wrapper(t)
    \/ \E t \in Timers, k \in Kinds, d \in Deltas : invoke(t, k, d)
    \/ \E t \in Timers : wrapper_return(t)

Next ==
    \/ OwnerBuildDrop
    \/ \E t \in Timers, d \in Deltas : modify_enter(t, d)
    \/ \E t \in Timers : modify(t)
    \/ Host

Spec == Init /\ [][Next]_vars

\* Scenario A: the owner arms a Timer that is Idle and leaves a pending
\* deadline to the callback (it does not keep postponing it), and a Timer
\* is destroyed through Drop only: MaybeUninit storage is kept for good.
LiveNext ==
    \/ \E t \in Timers, p \in Places, k \in Kinds : new_uninitialized(t, p, k)
    \/ \E t \in Timers : boxed(t)
    \/ \E t \in Timers : in_uninit(t)
    \/ \E t \in Timers : in_option_drop_old(t)
    \/ \E t \in Timers : in_option(t)
    \/ \E t \in Timers : initialize(t)
    \/ \E t \in Timers : drop(t)
    \/ \E t \in Timers : del_timer_sync(t)
    \/ \E t \in Timers : drop_in_place(t)
    \/ \E t \in Timers : drop_glue(t)
    \/ \E t \in Timers, d \in Deltas :
          ~Armed(t) /\ ~Running(t) /\ modify_enter(t, d)
    \/ \E t \in Timers : modify(t)
    \/ Host

\* The tick counter keeps advancing, the host dispatches what has expired,
\* a callback that was called runs to its return, and modify does not block.
Fairness ==
    /\ WF_vars(Tick)
    /\ \A t \in Timers :
          /\ WF_vars(wrapper(t))
          /\ WF_vars(\E k \in Kinds, d \in Deltas : invoke(t, k, d))
          /\ WF_vars(wrapper_return(t))
          /\ WF_vars(modify(t))

LiveSpec == Init /\ [][LiveNext]_vars /\ Fairness

\* ------------------------------------------------------------- consumer
\* drivers/input/ps2_counter.rs. u64 arithmetic is arithmetic modulo
\* JiffiesMod, and u64::MAX is JiffiesMod - 1.
u64_MAX == JiffiesMod - 1
overflowing_sub(a, b) == [val |-> (a - b) % JiffiesMod, ovf |-> a < b]
overflowing_add(a, b) ==
    [val |-> (a + b) % JiffiesMod, ovf |-> a + b >= JiffiesMod]

\* Wrap-safe comparison of the consumer's tick values.
time_after_eq64(a, b) == ((a - b) % JiffiesMod) < ((JiffiesMod + 1) \div 2)

\* The interrupt line and cookie values a handler can be called with.
IrqLines == {0, 1, 2}
Cookies == {"COUNTER_INSTANCE", "foreign"}
\* What request_threaded_irq returns: 0, or a negative errno.
IrqResults == {-16, -12, 0}

\* Mutant of ps_request_threaded_irq: the result is not tested.
ps_request_irq_unchecked(res) ==
    /\ ps.mod = "unloaded"
    /\ ps' = [ps EXCEPT !.mod = "irq_ready", !.irq = (res >= 0)]
    /\ UNCHANGED <<timerVars, tb>>

\* Ps2Counter::init, first half: request_threaded_irq and the test of its
\* result. The host installs the handler exactly when it returns 0.
ps_request_threaded_irq(res) ==
    /\ ps.mod = "unloaded"
    /\ IF res < 0
         THEN ps' = [ps EXCEPT !.mod = "failed", !.initRet = "Err",
                               !.errno = res]
         ELSE ps' = [ps EXCEPT !.mod = "irq_ready", !.irq = TRUE]
    /\ UNCHANGED <<timerVars, tb>>

\* Ps2Counter::init, second half: timer!(Callback).boxed() and Ok(..).
ps_boxed ==
    /\ ps.mod = "irq_ready"
    /\ ps' = [ps EXCEPT !.mod = "loaded", !.timer = "live",
                        !.initCount = @ + 1, !.initRet = "Ok"]
    /\ UNCHANGED <<timerVars, tb>>

\* CounterData::handle_key: fetch_add(1, Relaxed), IRQ_HANDLED.
handle_key(p) ==
    [p EXCEPT !.counter = @ + 1, !.handled = @ + 1,
              !.irqret = "IRQ_HANDLED"]

\* Mutant of trampoline: the two tests are joined by && instead of ||.
trampoline_and(irq, cookie) ==
    /\ ps.irq /\ ps.cb # "panic"
    /\ IF cookie # "COUNTER_INSTANCE" /\ irq # 1
         THEN ps' = [ps EXCEPT !.irqret = "IRQ_NONE"]
         ELSE /\ ps.handled < MaxEvents
              /\ ps' = handle_key(ps)
    /\ UNCHANGED <<timerVars, tb>>

\* CounterData::trampoline, called while the handler is installed.
trampoline(irq, cookie) ==
    /\ ps.irq /\ ps.cb # "panic"
    /\ IF cookie # "COUNTER_INSTANCE" \/ irq # 1
         THEN ps' = [ps EXCEPT !.irqret = "IRQ_NONE"]
         ELSE /\ ps.handled < MaxEvents
              /\ ps' = handle_key(ps)
    /\ UNCHANGED <<timerVars, tb>>

\* The host advances the tick counter: a pending deadline is dispatched at
\* the tick it expires or during the next, and a run of the callback that
\* has read the tick counter sees at most one tick pass.
ps_tick ==
    /\ ps.cb # "panic"
    /\ ps.expires # NoDeadline =>
          ~(time_after_eq64(ps.jiffies_64, ps.expires)
            /\ ps.jiffies_64 # ps.expires)
    /\ ps.cb \in {"check", "swapped", "ret"} => ps.jiffies_64 = ps.now
    /\ ps' = [ps EXCEPT !.jiffies_64 = (@ + 1) % JiffiesMod]
    /\ UNCHANGED <<timerVars, tb>>

\* The host detaches the expired registration and calls Timer::wrapper.
ps_wrapper ==
    /\ ps.cb = "none"
    /\ ps.expires # NoDeadline
    /\ time_after_eq64(ps.jiffies_64, ps.expires)
    /\ ps' = [ps EXCEPT !.expires = NoDeadline, !.cb = "invoke"]
    /\ UNCHANGED <<timerVars, tb>>

\* Callback::invoke up to the test of diff: now, last, overflowing_sub and
\* "diff += u64::MAX", which panics in a build with overflow checks and
\* wraps in a build without.
invoke_load ==
    /\ ps.cb = "invoke"
    /\ LET now == ps.jiffies_64
           last == ps.last_printed
           sub == overflowing_sub(now, last)
           add == overflowing_add(sub.val, u64_MAX)
       IN  IF ~sub.ovf
             THEN ps' = [ps EXCEPT !.now = now, !.last = last,
                                   !.diff = sub.val, !.cb = "check"]
             ELSE \/ /\ add.ovf
                     /\ ps' = [ps EXCEPT !.now = now, !.last = last,
                                         !.diff = sub.val, !.cb = "panic"]
                  \/ ps' = [ps EXCEPT !.now = now, !.last = last,
                                      !.diff = add.val, !.cb = "check"]
    /\ UNCHANGED <<timerVars, tb>>

\* Callback::invoke, diff < DELAY: timer.modify(now + diff), return.
invoke_rearm ==
    /\ ps.cb = "check" /\ ps.diff < DELAY
    /\ ps' = [ps EXCEPT !.expires = overflowing_add(ps.now, ps.diff).val,
                        !.cb = "ret"]
    /\ UNCHANGED <<timerVars, tb>>

\* Mutant of invoke_swap: the counter is read with load, not swapped.
invoke_swap_load ==
    /\ ps.cb = "check" /\ ps.diff >= DELAY
    /\ ps' = [ps EXCEPT !.swapped = ps.counter,
                        !.flushed = @ + ps.counter, !.cb = "swapped"]
    /\ UNCHANGED <<timerVars, tb>>

\* Callback::invoke, diff >= DELAY: counter.swap(0, SeqCst).
invoke_swap ==
    /\ ps.cb = "check" /\ ps.diff >= DELAY
    /\ ps' = [ps EXCEPT !.swapped = ps.counter, !.counter = 0,
                        !.flushed = @ + ps.counter, !.cb = "swapped"]
    /\ UNCHANGED <<timerVars, tb>>

\* Callback::invoke after the swap: println of counter / 2, the store of
\* last_printed, timer.modify(now + DELAY).
invoke_flush ==
    /\ ps.cb = "swapped"
    /\ ps' = [ps EXCEPT !.printed = ps.swapped \div 2,
                        !.last_printed = ps.now,
                        !.expires = overflowing_add(ps.now, DELAY).val,
                        !.cb = "ret"]
    /\ UNCHANGED <<timerVars, tb>>

\* Timer::wrapper returns to the host; the locals of invoke are gone.
ps_wrapper_return ==
    /\ ps.cb = "ret"
    /\ ps' = [ps EXCEPT !.cb = "none", !.now = 0, !.last = 0, !.diff = 0,
                        !.swapped = 0, !.printed = NoReport]
    /\ UNCHANGED <<timerVars, tb>>

\* Mutant of free_irq: Drop for Ps2Counter leaves the handler installed.
free_irq_skipped ==
    /\ ps.mod = "loaded"
    /\ ps' = [ps EXCEPT !.mod = "drop_timer"]
    /\ UNCHANGED <<timerVars, tb>>

\* Drop for Ps2Counter: free_irq removes the handler from line 1.
free_irq ==
    /\ ps.mod = "loaded"
    /\ ps' = [ps EXCEPT !.irq = FALSE, !.mod = "drop_timer"]
    /\ UNCHANGED <<timerVars, tb>>

\* The drop of the field _timer: Drop for Timer, whose del_timer_sync waits
\* for a running callback and detaches a pending registration.
ps_del_timer_sync ==
    /\ ps.mod = "drop_timer"
    /\ ps.cb = "none"
    /\ ps' = [ps EXCEPT !.expires = NoDeadline, !.timer = "dropped",
                        !.mod = "removed"]
    /\ UNCHANGED <<timerVars, tb>>

\* The module as the host loads it, at any value of the tick counter.
PsInit ==
    /\ TimersInit
    /\ tb = NoBuilder
    /\ \E j \in Jiffies : ps = CounterData_new(j)

PsNext ==
    \/ \E res \in IrqResults : ps_request_threaded_irq(res)
    \/ ps_boxed
    \/ \E irq \in IrqLines, cookie \in Cookies : trampoline(irq, cookie)
    \/ ps_tick
    \/ free_irq
    \/ ps_del_timer_sync

PsSpec == PsInit /\ [][PsNext]_vars

\* The contract of Callback::invoke: a constructed consumer whose callback
\* the host calls, at any value of the tick counter.
Ps2Counter_loaded(j) ==
    [CounterData_new(j) EXCEPT !.mod = "loaded", !.irq = TRUE,
                               !.initRet = "Ok", !.timer = "live",
                               !.initCount = 1]

FlushInit ==
    /\ TimersInit
    /\ tb = NoBuilder
    /\ \E j \in Jiffies : ps = [Ps2Counter_loaded(j) EXCEPT !.cb = "invoke"]

FlushNext ==
    \/ \E irq \in IrqLines, cookie \in Cookies : trampoline(irq, cookie)
    \/ ps_tick
    \/ ps_wrapper
    \/ invoke_load
    \/ invoke_rearm
    \/ invoke_swap
    \/ invoke_flush
    \/ ps_wrapper_return
    \/ free_irq
    \/ ps_del_timer_sync

FlushSpec == FlushInit /\ [][FlushNext]_vars

\* -------------------------------------------------------------- builder
\* The host's flag bits (TIMER_DEFERRABLE 0x00080000, TIMER_IRQSAFE
\* 0x00200000).
TIMER_DEFERRABLE == 524288
TIMER_IRQSAFE == 2097152

\* a | b on unsigned integers.
RECURSIVE bitor(_, _)
bitor(a, b) ==
    IF a = 0 THEN b
    ELSE IF b = 0 THEN a
    ELSE (IF a % 2 = 1 \/ b % 2 = 1 THEN 1 ELSE 0)
             + 2 * bitor(a \div 2, b \div 2)

\* Names and callbacks a builder is made with.
TimerNames == {"HelloTimer", "ps2_counter.rs_158", "rust_timer_example.rs"}
TimerCallbacks == {"Callback", "MyHandler"}

\* TimerBuilder::new
TimerBuilder_new(n, c) ==
    /\ tb.stage = "none"
    /\ tb' = [tb EXCEPT !.stage = "builder", !.name = n, !.callback = c,
                        !.flags = 0]
    /\ UNCHANGED <<timerVars, ps>>

\* Mutant of deferrable: the flag is added, not or-ed.
deferrable_add ==
    /\ tb.stage = "builder" /\ tb.ncalls < MaxCalls
    /\ tb' = [tb EXCEPT !.flags = @ + TIMER_DEFERRABLE,
                        !.called = @ \cup {"deferrable"}, !.ncalls = @ + 1]
    /\ UNCHANGED <<timerVars, ps>>

\* TimerBuilder::deferrable
deferrable ==
    /\ tb.stage = "builder" /\ tb.ncalls < MaxCalls
    /\ tb' = [tb EXCEPT !.flags = bitor(@, TIMER_DEFERRABLE),
                        !.called = @ \cup {"deferrable"}, !.ncalls = @ + 1]
    /\ UNCHANGED <<timerVars, ps>>

\* TimerBuilder::irqsafe
irqsafe ==
    /\ tb.stage = "builder" /\ tb.ncalls < MaxCalls
    /\ tb' = [tb EXCEPT !.flags = bitor(@, TIMER_IRQSAFE),
                        !.called = @ \cup {"irqsafe"}, !.ncalls = @ + 1]
    /\ UNCHANGED <<timerVars, ps>>

\* A placement strategy: Timer::new_uninitialized takes name, callback and
\* flags out of the builder, Timer::initialize hands flags and name to
\* init_timer_key.
init_timer_key ==
    /\ tb.stage = "builder"
    /\ tb' = [tb EXCEPT !.stage = "registered", !.regFlags = tb.flags,
                        !.regName = tb.name, !.regCallback = tb.callback]
    /\ UNCHANGED <<timerVars, ps>>

BuilderInit ==
    /\ TimersInit
    /\ ps = CounterData_new(0)
    /\ tb = NoBuilder

BuilderNext ==
    \/ \E n \in TimerNames, c \in TimerCallbacks : TimerBuilder_new(n, c)
    \/ deferrable
    \/ irqsafe
    \/ init_timer_key

BuilderSpec == BuilderInit /\ [][BuilderNext]_vars

\* --------------------------------------------------------------- claims
\* Positions of Drop::drop after del_timer_sync has returned.
CancelReturned(t) == st[t] \in {"drop_in_place", "drop_glue", "dropped"}

\* The host-primitive state and the diagnostic token are released.
ListReleased(t) == st[t] \in {"drop_glue", "dropped", "leaked"}

\* The callback storage is released.
CallbackReleased(t) == st[t] \in {"dropped", "leaked"}

\* The owner thread holds an exclusive view of the Timer: the &mut Self of
\* get_unchecked_mut inside modify, or the &mut self of Drop::drop.
OwnerView(t) == st[t] \in {"modify", "del_timer_sync", "drop_in_place"}

\* The dispatch holds the &mut Self that wrapper made and gave to invoke.
DispatchView(t) == cbpc[t] \in {"invoke", "ret"}

\* C1: once the del_timer_sync call of a Timer's Drop has returned, no
\* invocation of its callback is in progress and no registration is left in
\* the host from which one could start, whether the Timer was Armed or its
\* callback re-armed it while Drop was waiting.
C1_NoDispatchAfterCancel ==
    \A t \in Timers : CancelReturned(t) => ~Running(t) /\ ~Armed(t)

\* C1 witness: del_timer_sync has returned to Drop::drop after detaching a
\* pending registration.
C1_Witness ==
    \E t \in Timers : st[t] = "drop_in_place" /\ delRet[t] = 1

\* C2: every release of the host state, the token and the callback storage
\* comes after del_timer_sync has returned, and no dispatch is in progress on
\* a Timer whose callback or host state has been released.
C2_NoDispatchOnReleased ==
    \A t \in Timers :
        /\ st[t] \in {"drop_glue", "dropped"} => cancelCount[t] = 1
        /\ ListReleased(t) \/ CallbackReleased(t) => ~Running(t)

\* C3: a modify call returns true exactly when the Timer was Armed at the
\* call and false exactly when it was Idle, and leaves the Timer Armed with
\* the deadline it was given.
C3_ModifyReturnsWasArmed ==
    [][\A t \in Timers :
          (st[t] = "modify" /\ st'[t] = "live") =>
              /\ ret' = (IF Armed(t) THEN "true" ELSE "false")
              /\ EntriesOf(wheel', t) = {<<t, arg>>}]_vars

\* C3 witness: modify has returned true on a Timer that is Armed.
C3_Witness ==
    \E t \in Timers : st[t] = "live" /\ ret = "true" /\ Armed(t)

\* C4: init_timer_key is called exactly once per Timer, with the payload at
\* its final address, before the handle is returned: a Timer that is not yet
\* registered has seen no modify, dispatch or teardown.
C4_RegisteredOnceBeforeUse ==
    \A t \in Timers :
        /\ st[t] \in {"unused", "uninit", "placed"} =>
              /\ initCount[t] = 0
              /\ ~Armed(t) /\ ~Running(t) /\ cancelCount[t] = 0
        /\ st[t] \notin {"unused", "uninit", "placed"} => initCount[t] = 1
        /\ st[t] \in {"live", "modify"} => regAddr[t] = place[t]

\* C4 witness: the owner is inside modify on a Timer built by in_uninit and
\* registered once.
C4_Witness ==
    \E t \in Timers :
        st[t] = "modify" /\ place[t] = "raw" /\ initCount[t] = 1

\* C5: from registration until the storage is given back, the address the
\* host holds is the address of the Timer, whatever modify calls and
\* dispatches happen in between.
C5_AddressStable ==
    \A t \in Timers :
        st[t] \in {"live", "modify", "del_timer_sync", "drop_in_place",
                   "drop_glue"} =>
            regAddr[t] = loc[t] /\ loc[t] = place[t]

\* C5 witness: a modify call has returned on a Timer whose callback is being
\* dispatched.
C5_Witness ==
    \E t \in Timers :
        st[t] = "live" /\ ret # "none" /\ Running(t) /\ regAddr[t] = loc[t]

\* C6: a Timer has at most one pending registration in the host, and its
\* deadline is the one given by the last modify applied, from the owner or
\* from inside the callback.
C6_OnePendingDeadline ==
    \A t \in Timers :
        /\ Cardinality(EntriesOf(wheel, t)) <= 1
        /\ EntriesOf(wheel, t) =
              IF armedFor[t] = NoTick THEN {} ELSE {<<t, armedFor[t]>>}

\* C6 witness: the owner's modify found the Timer Armed by its own callback,
\* which is still running, and moved the pending deadline.
C6_Witness ==
    \E t \in Timers :
        /\ st[t] = "live" /\ ret = "true" /\ cbpc[t] = "ret"
        /\ EntriesOf(wheel, t) = {<<t, armedFor[t]>>}

\* C7: a Timer whose callback re-arms itself on every invocation is
\* dispatched again after every firing, until its teardown starts or its
\* storage is released; a dropped Timer is never running or pending again.
C7_RearmingFiresUntilDestroyed ==
    /\ \A t \in Timers :
          (kind[t] = "rearm" /\ cbpc[t] = "ret" /\ st[t] \in {"live", "modify"})
              ~> (cbpc[t] = "invoke" \/ st[t] \notin {"live", "modify"})
    /\ [](\A t \in Timers : st[t] = "dropped" => ~Running(t) /\ ~Armed(t))

\* C7 witness: the re-arming callback of a live Timer has fired and re-armed
\* the Timer at a tick after the one the owner armed it at.
C7_Witness ==
    \E t \in Timers :
        /\ kind[t] = "rearm" /\ st[t] = "live" /\ cbpc[t] = "ret"
        /\ Armed(t) /\ ret = "false" /\ jiffies = TickMod - 1

\* C8: when in_option writes a new Timer into the Option, no other Timer's
\* payload is in it: the previous occupant went through its whole Drop, and a
\* dropped Timer is neither running nor pending.
C8_OptionReplacedAfterTeardown ==
    /\ \A t, u \in Timers :
          (t # u /\ loc[t] = "option" /\ place[u] = "option") =>
              st[u] \in {"uninit", "dropped"}
    /\ \A u \in Timers :
          st[u] = "dropped" => cancelCount[u] = 1 /\ ~Running(u) /\ ~Armed(u)

\* C8 witness: a Timer is registered in the Option after two earlier
\* occupants of the same Option were dropped by in_option.
C8_Witness ==
    \E t \in Timers :
        /\ st[t] = "live" /\ loc[t] = "option"
        /\ Cardinality({u \in Timers : u # t /\ place[u] = "option"
                                        /\ st[u] = "dropped"}) >= 2

\* C9: whenever the storage of a registered Timer has been reclaimed or made
\* free for re-use, del_timer_sync was executed for it exactly once before.
C9_CancelBeforeReclaim ==
    \A t \in Timers : CallbackReleased(t) => cancelCount[t] = 1

\* C10: the dispatch and the owner never hold an exclusive view of the same
\* Timer at the same time.
C10_NoTwoExclusiveViews ==
    \A t \in Timers : ~(DispatchView(t) /\ OwnerView(t))

\* The ticks that have passed between last and now, whatever the wrap.
Elapsed(now, last) == (now - last) % JiffiesMod

\* C11: when the flush callback fires with less than DELAY ticks elapsed
\* since the last flush, it re-arms the timer to now + (DELAY - elapsed),
\* leaves the counter and last_printed as they are and prints no report.
C11_RearmsForRemainingTime ==
    [][(ps.cb = "check" /\ ps'.cb = "ret"
            /\ Elapsed(ps.now, ps.last) < DELAY) =>
          /\ ps'.expires =
                (ps.now + (DELAY - Elapsed(ps.now, ps.last))) % JiffiesMod
          /\ ps'.counter = ps.counter
          /\ ps'.last_printed = ps.last_printed
          /\ ps'.printed = NoReport]_vars

\* C12: when the flush callback fires with DELAY ticks or more elapsed, it
\* goes on to the flush, swaps the counter to 0 in one step, reports half of
\* the value swapped out, sets last_printed to now and re-arms the timer to
\* now + DELAY.
C12_FlushAtDelay ==
    [][/\ (ps.cb = "invoke" /\ ps'.cb # "invoke"
              /\ Elapsed(ps.jiffies_64, ps.last_printed) >= DELAY) =>
             ps'.cb = "check" /\ ps'.diff >= DELAY
       /\ (ps.cb = "check" /\ ps'.cb # "check" /\ ps.diff >= DELAY) =>
             /\ ps'.cb = "swapped"
             /\ ps'.swapped = ps.counter /\ ps'.counter = 0
       /\ (ps.cb = "swapped" /\ ps'.cb # "swapped") =>
             /\ ps'.printed = ps.swapped \div 2
             /\ ps'.last_printed = ps.now
             /\ ps'.expires = (ps.now + DELAY) % JiffiesMod]_vars

\* C13: the elapsed value the flush callback computes is the modular distance
\* from last to now, and computing it overflows nowhere.
C13_ElapsedIsModularDistance ==
    /\ ps.cb \in {"check", "swapped", "ret"} =>
          ps.diff = Elapsed(ps.now, ps.last)
    /\ ps.cb # "panic"

\* C14: once Ps2Counter::init has returned Ok, the flush timer is Armed.
C14_ArmedAfterInit ==
    ps.mod = "loaded" => ps.expires # NoDeadline

\* C15: a dispatch consumes the registration it starts from; a callback that
\* returns without calling modify leaves the Timer as it is, so that only a
\* modify call makes an Idle Timer Armed again, and a callback that called
\* modify returns with the Timer Armed.
C15_OneDispatchPerArming ==
    [][\A t \in Timers :
          /\ (cbpc[t] = "none" /\ cbpc'[t] = "invoke") =>
                Armed(t) /\ ~timer_pending(wheel', t)
          /\ (cbpc[t] = "invoke" /\ cbpc'[t] = "ret" /\ st[t] # "leaked") =>
                IF kind[t] = "rearm" THEN timer_pending(wheel', t)
                                     ELSE wheel' = wheel
          /\ (cbpc[t] = "ret" /\ cbpc'[t] = "none") =>
                /\ wheel' = wheel
                /\ (kind[t] = "rearm" /\ st[t] # "leaked") =>
                      timer_pending(wheel', t)
          /\ (~Armed(t) /\ timer_pending(wheel', t)) =>
                \/ st[t] = "modify" /\ st'[t] = "live"
                \/ /\ cbpc[t] = "invoke" /\ cbpc'[t] = "ret"
                   /\ st[t] # "leaked" => kind[t] = "rearm"]_vars

\* C15 witness: the callback of a live Timer that never calls modify was
\* dispatched and has finished, and the Timer is Idle.
C15_Witness ==
    \E t \in Timers :
        /\ kind[t] = "oneshot" /\ st[t] = "live" /\ cbpc[t] = "ret"
        /\ ~Armed(t) /\ ret = "false"

\* C16: a trampoline call adds exactly 1 to the counter and returns
\* IRQ_HANDLED when the cookie is COUNTER_INSTANCE and the line is 1; with any
\* other cookie or line it returns IRQ_NONE and leaves the counter and
\* last_printed as they are.
C16_HandlerValidatesCookie ==
    [][\A irq \in IrqLines, cookie \in Cookies :
          trampoline(irq, cookie) =>
              IF cookie = "COUNTER_INSTANCE" /\ irq = 1
                THEN /\ ps'.counter = ps.counter + 1
                     /\ ps'.irqret = "IRQ_HANDLED"
                     /\ ps'.last_printed = ps.last_printed
                ELSE /\ ps'.counter = ps.counter
                     /\ ps'.irqret = "IRQ_NONE"
                     /\ ps'.last_printed = ps.last_printed]_vars

\* C16 witness: a call was refused after valid calls were counted.
C16_Witness ==
    ps.irqret = "IRQ_NONE" /\ ps.counter = 2

\* C17: Ps2Counter::init returns Err with the errno of a failed
\* request_threaded_irq, and then no Timer exists, none is registered or
\* pending and no handler is installed; it returns Ok only with the handler
\* installed and exactly one Timer registered.
C17_InitFailsWithoutTimer ==
    /\ ps.mod = "failed" <=> ps.initRet = "Err"
    /\ ps.initRet = "Err" =>
          /\ ps.errno \in IrqResults /\ ps.errno < 0
          /\ ps.timer = "none" /\ ps.initCount = 0
          /\ ps.expires = NoDeadline /\ ~ps.irq
    /\ ps.initRet = "Ok" => ps.initCount = 1 /\ ps.timer # "none"
    /\ ps.mod = "loaded" => ps.initRet = "Ok" /\ ps.irq
    /\ ps.mod = "irq_ready" => ps.irq /\ ps.timer = "none"

\* C17 witness: request_threaded_irq returned -EBUSY and init has returned
\* the Err made of it.
C17_Witness ==
    ps.mod = "failed" /\ ps.initRet = "Err" /\ ps.errno = -16

\* C18: the interrupts handled so far are the values swapped out of the
\* counter by the flushes plus the value the counter holds.
C18_NoEventLostBySwap ==
    ps.handled = ps.flushed + ps.counter

\* C18 witness: interrupts were handled between the swap of a flush and its
\* report, after an earlier flush had swapped out events too.
C18_Witness ==
    /\ ps.cb = "swapped" /\ ps.counter > 0
    /\ ps.swapped > 0 /\ ps.flushed > ps.swapped

\* C19: once the drop of Ps2Counter is complete, no handler is installed, the
\* Timer is dropped with nothing pending or running, and the counter, the
\* reports and the callback stay as they are.
C19_QuietAfterDestroy ==
    /\ [](ps.mod = "removed" =>
             /\ ~ps.irq /\ ps.timer = "dropped"
             /\ ps.expires = NoDeadline /\ ps.cb = "none"
             /\ ps.printed = NoReport)
    /\ [][ps.mod = "removed" =>
             /\ ps'.counter = ps.counter /\ ps'.handled = ps.handled
             /\ ps'.flushed = ps.flushed /\ ps'.printed = ps.printed
             /\ ps'.cb = ps.cb /\ ps'.expires = ps.expires]_vars

\* C19 witness: the drop is complete after the timer had flushed events and
\* was Armed again, and ticks have passed since.
C19_Witness ==
    /\ ps.mod = "removed" /\ ps.flushed > 0 /\ ps.counter > 0
    /\ Elapsed(ps.jiffies_64, ps.last_printed) > DELAY

\* The union of the flags of the setters in S.
FlagsOf(S) ==
    (IF "deferrable" \in S THEN TIMER_DEFERRABLE ELSE 0)
        + (IF "irqsafe" \in S THEN TIMER_IRQSAFE ELSE 0)

\* C20: a new builder has no flag set; the flags of a builder, and the flags
\* init_timer_key receives, are the union of the flags of the setters called,
\* however often and in whatever order; the setters leave name and callback
\* alone and the registration gets both.
C20_FlagsAreUnionOfSetters ==
    /\ [](/\ (tb.stage = "builder" /\ tb.ncalls = 0) => tb.flags = 0
          /\ tb.stage = "builder" => tb.flags = FlagsOf(tb.called)
          /\ tb.stage = "registered" =>
                /\ tb.regFlags = FlagsOf(tb.called)
                /\ tb.regName = tb.name /\ tb.regCallback = tb.callback)
    /\ [][(tb.stage = "builder" /\ tb'.stage # "none") =>
             tb'.name = tb.name /\ tb'.callback = tb.callback]_vars

\* C20 witness: a registration made after three setter calls, among them
\* both setters.
C20_Witness ==
    /\ tb.stage = "registered" /\ tb.ncalls = 3
    /\ tb.called = {"deferrable", "irqsafe"}
    /\ tb.regFlags = TIMER_DEFERRABLE + TIMER_IRQSAFE
====
